---- MODULE Spec2Model ----
(***************************************************************************)
(* Model of the loan amortization engine, backend/loan_calculator.py.      *)
(*                                                                         *)
(* Money.  The source computes with decimal.Decimal.  A Decimal amount is  *)
(* modelled as an integer number of ticks, CentTicks ticks to the cent, so *)
(* that amounts finer than a cent (the quotient of an inexact division)    *)
(* are distinguishable from whole cents.  Decimal division rounds its      *)
(* quotient half-even to the context precision (DecimalDivide); quantize   *)
(* (Decimal('0.01'), ROUND_HALF_UP) rounds to whole cents, ties away from  *)
(* zero (Quantize).                                                        *)
(*                                                                         *)
(* Rates.  period_rate is a rational <<num, den>> in lowest terms.  The    *)
(* annual rates of the input set are chosen so that period_rate and every  *)
(* power (1 + period_rate)^n are finite decimals of fewer than 28 digits:  *)
(* the Decimal computation of the source is then exact up to the final     *)
(* division, and rounding the exact quotient is what the source computes.  *)
(* Inputs on which the 28 significant digits of the Decimal context round  *)
(* an intermediate value (a period rate that is not a finite decimal, or   *)
(* (1 + period_rate)^n of 27 digits and more) lie outside the input sets.  *)
(*                                                                         *)
(* Floats.  calculate_summary converts its totals with float(); the model  *)
(* keeps the Decimal totals the conversion is applied to.  The fee map is  *)
(* the empty default, so total_fees is 0.                                  *)
(*                                                                         *)
(* Dates.  A datetime is its calendar date <<year, month, day>>: the time  *)
(* of day is carried along unchanged by the source and dropped by          *)
(* strftime('%Y-%m-%d').                                                   *)
(*                                                                         *)
(* Exceptions.  A raise ends the call: pc becomes "raised" and error holds *)
(* the exception's class.  Under the route of backend/app.py the handler's *)
(* except clause turns it into the 500 response.                           *)
(***************************************************************************)
EXTENDS Integers, Sequences, FiniteSets, TLC

VARIABLES principal, annual_rate, tenure_months, payment_frequency,
          down_payment, extra_payments, payment_holidays,
          start_param, monthly_income, missing,
          start_date,
          pc, stage, payment_num, balance, regular_payment, payment_date,
          extra_payment_map, holiday_periods, schedule, summary,
          affordability, result, error, http_status,
          now, other, users, otps, utc, reply

vars == <<principal, annual_rate, tenure_months, payment_frequency,
          down_payment, extra_payments, payment_holidays,
          start_param, monthly_income, missing,
          start_date,
          pc, stage, payment_num, balance, regular_payment, payment_date,
          extra_payment_map, holiday_periods, schedule, summary,
          affordability, result, error, http_status,
          now, other, users, otps, utc, reply>>

(* the request: the params of calculate_loan, and the fields of the JSON  *)
(* body that are absent                                                    *)
params == <<principal, annual_rate, tenure_months, payment_frequency,
            down_payment, extra_payments, payment_holidays,
            start_param, monthly_income, missing>>

(* what lies outside the invocation at hand: the date of the day, the     *)
(* invocation of another request, the tables of the database, the clock   *)
(* of the server and the reply to the last request of the auth routes     *)
environment == <<now, other, users, otps, utc, reply>>

(* what a step of an invocation leaves alone once the calculator is       *)
(* constructed: the params, self.start_date and the environment           *)
inputs == <<params, start_date, environment>>

(* what calculate_loan and the route produce *)
outcome == <<affordability, result, error, http_status>>

----------------------------------------------------------------------------
(* Bounds of the input sets *)

MaxPayments == 4
MaxExtras == 1
MaxTenure == 60

(* longest extra_payments list in the runs with repeated payment numbers *)
MaxDuplicates == 2

(* most rows of the users table *)
MaxUsers == 3

(* the clock of the server stops after this many ticks *)
MaxClock == 3

(* Ticks per cent: the resolution kept below the cent. *)
CentTicks == 10

Cents(c) == c * CentTicks

Principals == {Cents(23), Cents(100)}
DownPayments == {0, Cents(10)}
ExtraAmounts == {Cents(10), Cents(200)}

----------------------------------------------------------------------------
(* Arithmetic *)

Abs(x) == IF x < 0 THEN -x ELSE x

Sign(x) == IF x < 0 THEN -1 ELSE 1

Max(x, y) == IF x >= y THEN x ELSE y

RECURSIVE GCD(_, _)
GCD(x, y) == IF y = 0 THEN x ELSE GCD(y, x % y)

RECURSIVE Pow(_, _)
Pow(x, n) == IF n = 0 THEN 1 ELSE x * Pow(x, n - 1)

Reduce(q) == LET g == GCD(Abs(q[1]), q[2]) IN <<q[1] \div g, q[2] \div g>>

(* the integer part of numer / denom, as int() cuts a float *)
IntTrunc(numer, denom) ==
    Sign(numer) * Sign(denom) * (Abs(numer) \div Abs(denom))

(* numer / denom rounded to an integer, ties away from zero *)
RoundHalfUp(numer, denom) ==
    Sign(numer) * Sign(denom)
      * ((2 * Abs(numer) + Abs(denom)) \div (2 * Abs(denom)))

(* numer / denom rounded to an integer, ties to even *)
RoundHalfEven(numer, denom) ==
    LET q == Abs(numer) \div Abs(denom)
        r == Abs(numer) % Abs(denom)
    IN Sign(numer) * Sign(denom)
         * (IF 2 * r > Abs(denom) THEN q + 1
            ELSE IF 2 * r < Abs(denom) THEN q
            ELSE q + (q % 2))

(* (numer / denom).quantize(Decimal('0.01'), rounding=ROUND_HALF_UP), ticks *)
Quantize(numer, denom) == CentTicks * RoundHalfUp(numer, denom * CentTicks)

(* Decimal / Decimal: the quotient rounded half-even to the kept precision *)
DecimalDivide(x, n) == RoundHalfEven(x, n)

IsWholeCents(x) == x % CentTicks = 0

----------------------------------------------------------------------------
(* LoanCalculator.__init__: derived values *)

PAYMENT_FREQUENCIES == [f \in {"monthly", "bi-weekly", "weekly"} |->
                          IF f = "monthly" THEN 12
                          ELSE IF f = "bi-weekly" THEN 26 ELSE 52]

payments_per_year(freq) == PAYMENT_FREQUENCIES[freq]

(* variant: the count rounded to the nearest whole payment *)
_calculate_total_payments_Nearest(freq, tenure) ==
    IF freq = "monthly" THEN tenure
    ELSE IF freq = "bi-weekly" THEN RoundHalfUp(tenure * 26, 12)
    ELSE RoundHalfUp(tenure * 52, 12)

_calculate_total_payments(freq, tenure) ==
    IF freq = "monthly" THEN tenure
    ELSE IF freq = "bi-weekly" THEN IntTrunc(tenure * 26, 12)
    ELSE IntTrunc(tenure * 52, 12)

(* annual_rate / 100 / payments_per_year *)
PeriodRate(rate, freq) == Reduce(<<rate, 100 * payments_per_year(freq)>>)

NetPrincipal(p, dp) == p - dp

total_payments == _calculate_total_payments(payment_frequency, tenure_months)
period_rate == PeriodRate(annual_rate, payment_frequency)
net_principal == NetPrincipal(principal, down_payment)

----------------------------------------------------------------------------
(* LoanCalculator.calculate_payment *)

(* numerator and denominator of the annuity quotient over the common     *)
(* denominator of (1 + period_rate)^n; for n < 0 the power is the         *)
(* reciprocal of (1 + period_rate)^(-n), which the source rounds to the   *)
(* 28 digits of the context before the quotient is quantized              *)
AnnuityNumerator(net, r, n) ==
    IF n >= 0 THEN net * r[1] * Pow(r[2] + r[1], n)
    ELSE net * r[1] * Pow(r[2], -n)

AnnuityDenominator(r, n) ==
    IF n >= 0 THEN r[2] * (Pow(r[2] + r[1], n) - Pow(r[2], n))
    ELSE r[2] * (Pow(r[2], -n) - Pow(r[2] + r[1], -n))

(* variant: the straight-line branch taken whatever the rate *)
calculate_payment_StraightLine(net, r, n) == DecimalDivide(net, n)

(* variant: the annuity quotient cut to whole cents instead of rounded *)
calculate_payment_Truncated(net, r, n) ==
    IF r[1] = 0
    THEN DecimalDivide(net, n)
    ELSE CentTicks * (AnnuityNumerator(net, r, n)
                        \div (AnnuityDenominator(r, n) * CentTicks))

(* variant: the zero-rate branch divides by the months of the tenure *)
calculate_payment_ByMonths(net, r, n) ==
    IF r[1] = 0
    THEN DecimalDivide(net, tenure_months)
    ELSE Quantize(AnnuityNumerator(net, r, n), AnnuityDenominator(r, n))

calculate_payment(net, r, n) ==
    IF r[1] = 0
    THEN DecimalDivide(net, n)
    ELSE Quantize(AnnuityNumerator(net, r, n), AnnuityDenominator(r, n))

----------------------------------------------------------------------------
(* LoanCalculator._get_next_payment_date *)

IsLeap(y) == (y % 4 = 0 /\ y % 100 # 0) \/ y % 400 = 0

DaysInMonth(y, m) ==
    IF m = 2 THEN (IF IsLeap(y) THEN 29 ELSE 28)
    ELSE IF m \in {4, 6, 9, 11} THEN 30 ELSE 31

IsDate(d) == d[2] \in 1 .. 12 /\ d[3] \in 1 .. DaysInMonth(d[1], d[2])

NextDay(d) ==
    IF d[3] < DaysInMonth(d[1], d[2]) THEN <<d[1], d[2], d[3] + 1>>
    ELSE IF d[2] < 12 THEN <<d[1], d[2] + 1, 1>>
    ELSE <<d[1] + 1, 1, 1>>

(* current_date + timedelta(days=k) *)
RECURSIVE AddDays(_, _)
AddDays(d, k) == IF k = 0 THEN d ELSE AddDays(NextDay(d), k - 1)

(* current_date.replace(month=..) or .replace(year=.., month=1): the day  *)
(* is kept, whether or not the new month has it                            *)
ReplaceMonth(d) ==
    IF d[2] = 12 THEN <<d[1] + 1, 1, d[3]>> ELSE <<d[1], d[2] + 1, d[3]>>

(* the next date; a triple that is no date stands for the ValueError that *)
(* datetime.replace raises                                                 *)
_get_next_payment_date(d, freq) ==
    IF freq = "monthly" THEN ReplaceMonth(d)
    ELSE IF freq = "bi-weekly" THEN AddDays(d, 14)
    ELSE AddDays(d, 7)

----------------------------------------------------------------------------
(* LoanCalculator.generate_amortization_schedule *)

RECURSIVE BuildExtraMap(_)

(* variant: the first entry for a payment number kept, later ones dropped *)
BuildExtraMap_FirstWins(eps) ==
    [k \in {eps[j].payment_number : j \in DOMAIN eps} |->
       LET js == {j \in DOMAIN eps : eps[j].payment_number = k}
       IN eps[CHOOSE j \in js : \A h \in js : j <= h].amount]

(* lines 99-102: extra_payment_map[ep['payment_number']] = amount, in the *)
(* order of the input, so that a later entry overwrites an earlier one    *)
BuildExtraMap(eps) ==
    IF eps = <<>> THEN [k \in {} |-> 0]
    ELSE LET m == BuildExtraMap(SubSeq(eps, 1, Len(eps) - 1))
             ep == eps[Len(eps)]
         IN [k \in DOMAIN m \cup {ep.payment_number} |->
               IF k = ep.payment_number THEN ep.amount ELSE m[k]]

(* variant: the end of a holiday range left out *)
BuildHolidayPeriods_Exclusive(phs) ==
    UNION {phs[i].start_payment .. phs[i].end_payment - 1 : i \in DOMAIN phs}

(* lines 104-107: holiday_periods.update(range(start, end + 1)) *)
BuildHolidayPeriods(phs) ==
    UNION {phs[i].start_payment .. phs[i].end_payment : i \in DOMAIN phs}

(* variant: a holiday entry that takes no payment number *)
HolidayEntry_Unnumbered(num, bal) ==
    [payment_number |-> 0, payment |-> 0, principal |-> 0, interest |-> 0,
     extra_payment |-> 0, balance |-> bal, is_holiday |-> TRUE]

(* variant: the regular payment charged during a holiday *)
HolidayEntry_Charged(num, bal) ==
    [payment_number |-> num, payment |-> regular_payment, principal |-> 0,
     interest |-> 0, extra_payment |-> 0, balance |-> bal,
     is_holiday |-> TRUE]

HolidayEntry(num, bal) ==
    [payment_number |-> num, payment |-> 0, principal |-> 0, interest |-> 0,
     extra_payment |-> 0, balance |-> bal, is_holiday |-> TRUE]

(* variant: the interest rounded half to even *)
InterestFor_HalfEven(bal, r) ==
    CentTicks * RoundHalfEven(bal * r[1], r[2] * CentTicks)

(* (balance * period_rate).quantize(Decimal('0.01'), ROUND_HALF_UP) *)
InterestFor(bal, r) == Quantize(bal * r[1], r[2])

(* variant: operands of the subtraction swapped *)
PrincipalPortion_Swapped(pay, interest) == interest - pay

PrincipalPortion(pay, interest) == pay - interest

ExtraFor(map, num) == IF num \in DOMAIN map THEN map[num] ELSE 0

(* variant: no overpayment clamp; the floor at 0 alone keeps the balance  *)
(* from going negative                                                     *)
ApplyPayment_FloorOnly(bal, prin, extra) ==
    [principal |-> prin, extra |-> extra,
     balance |-> Max(bal - (prin + extra), 0)]

(* variant: no overpayment guard, the balance simply reduced *)
ApplyPayment_NoGuard(bal, prin, extra) ==
    [principal |-> prin, extra |-> extra, balance |-> bal - (prin + extra)]

(* variant: on overpayment the extra payment is served before principal *)
ApplyPayment_ExtraFirst(bal, prin, extra) ==
    LET clamp == prin + extra > bal
        e1 == IF ~clamp THEN extra
              ELSE IF extra < bal THEN extra ELSE bal
        p1 == IF ~clamp THEN prin ELSE bal - e1
    IN [principal |-> p1, extra |-> e1,
        balance |-> Max(bal - (p1 + e1), 0)]

(* variant: on overpayment the extra payment is recorded uncapped *)
ApplyPayment_KeepExtra(bal, prin, extra) ==
    LET clamp == prin + extra > bal
        p1 == IF ~clamp THEN prin
              ELSE IF extra < bal THEN bal - extra ELSE 0
    IN [principal |-> p1, extra |-> extra,
        balance |-> Max(bal - (p1 + extra), 0)]

(* "Ensure we don't overpay" and "Update balance" *)
ApplyPayment(bal, prin, extra) ==
    LET clamp == prin + extra > bal
        p1 == IF ~clamp THEN prin
              ELSE IF extra < bal THEN bal - extra ELSE bal
        e1 == IF ~clamp THEN extra
              ELSE IF p1 < bal THEN bal - p1 ELSE 0
    IN [principal |-> p1, extra |-> e1,
        balance |-> Max(bal - (p1 + e1), 0)]

NormalEntry(num, bal, pay, r, map) ==
    LET interest == InterestFor(bal, r)
        applied == ApplyPayment(bal, PrincipalPortion(pay, interest),
                                ExtraFor(map, num))
    IN [payment_number |-> num, payment |-> pay,
        principal |-> applied.principal, interest |-> interest,
        extra_payment |-> applied.extra, balance |-> applied.balance,
        is_holiday |-> FALSE]

(* 'payment_date': payment_date.strftime('%Y-%m-%d') *)
Dated(entry, date) == [payment_date |-> date] @@ entry

(* variant: the loop never stops early *)
LoopBreaks_Never(bal) == FALSE

LoopBreaks(bal) == bal <= 0

----------------------------------------------------------------------------
(* LoanCalculator.calculate_summary *)

(* sum(entry[field] for entry in s), the sequence split in halves *)
RECURSIVE SumOver(_, _)
SumOver(s, field) ==
    IF s = <<>> THEN 0
    ELSE IF Len(s) = 1 THEN s[1][field]
    ELSE LET half == Len(s) \div 2
         IN SumOver(SubSeq(s, 1, half), field)
              + SumOver(SubSeq(s, half + 1, Len(s)), field)

NonHoliday(s) == SelectSeq(s, LAMBDA e : ~e.is_holiday)

(* variant: total_interest derived as total_paid - net_principal *)
MakeSummary_InterestByDifference(s, pay, net) ==
    [regular_payment |-> pay,
     total_payments |-> Len(s),
     actual_payments |-> Len(NonHoliday(s)),
     total_principal |-> net,
     total_interest |-> SumOver(NonHoliday(s), "payment")
                        + SumOver(NonHoliday(s), "extra_payment") - net,
     total_extra_payments |-> SumOver(s, "extra_payment"),
     total_cost |-> net + SumOver(s, "interest"),
     total_paid |-> SumOver(NonHoliday(s), "payment")
                    + SumOver(NonHoliday(s), "extra_payment")]

MakeSummary(s, pay, net) ==
    [regular_payment |-> pay,
     total_payments |-> Len(s),
     actual_payments |-> Len(NonHoliday(s)),
     total_principal |-> net,
     total_interest |-> SumOver(s, "interest"),
     total_extra_payments |-> SumOver(s, "extra_payment"),
     total_cost |-> net + SumOver(s, "interest"),
     total_paid |-> SumOver(NonHoliday(s), "payment")
                    + SumOver(NonHoliday(s), "extra_payment")]

NoSummary == [regular_payment |-> 0, total_payments |-> 0,
              actual_payments |-> 0, total_principal |-> 0,
              total_interest |-> 0, total_extra_payments |-> 0,
              total_cost |-> 0, total_paid |-> 0]

----------------------------------------------------------------------------
(* LoanCalculator.calculate_affordability.  The monthly equivalent and    *)
(* the ratio are rationals <<num, den>>; a denominator of 0 stands for    *)
(* the DivisionByZero that Decimal division by zero raises.               *)

(* lines 231-237: the payment converted to its monthly equivalent *)
MonthlyEquivalent(pay, freq) ==
    IF freq = "monthly" THEN <<pay, 1>>
    ELSE IF freq = "bi-weekly" THEN <<pay * 26, 12>>
    ELSE <<pay * 52, 12>>

(* q <= k, for a rational q with positive denominator *)
RatLeq(q, k) == q[1] <= k * q[2]

(* variant: the division made whatever the income *)
DebtToIncome_Unguarded(mp, income) == <<mp[1] * 100, mp[2] * income>>

(* line 240: monthly_payment / income * 100 if income > 0 else 0 *)
DebtToIncome(mp, income) ==
    IF income > 0 THEN Reduce(<<mp[1] * 100, mp[2] * income>>) ELSE <<0, 1>>

(* variant: a ratio of exactly 43 counted as not affordable *)
IsAffordable_Strict(ratio) == ratio[1] < 43 * ratio[2]

(* line 243 *)
IsAffordable(ratio) == RatLeq(ratio, 43)

(* lines 244-246 *)
ComfortLevel(ratio) ==
    IF RatLeq(ratio, 28) THEN "comfortable"
    ELSE IF RatLeq(ratio, 36) THEN "manageable"
    ELSE IF RatLeq(ratio, 43) THEN "stretched"
    ELSE "risky"

calculate_affordability(pay, freq, income) ==
    LET mp == MonthlyEquivalent(pay, freq)
        ratio == DebtToIncome(mp, income)
    IN [monthly_payment_equivalent |-> mp,
        monthly_income |-> income,
        debt_to_income_ratio |-> ratio,
        is_affordable |-> IsAffordable(ratio),
        comfort_level |-> ComfortLevel(ratio),
        recommended_max_payment |-> Reduce(<<income * 28, 100>>)]

----------------------------------------------------------------------------
(* Input sets *)

Frequencies == DOMAIN PAYMENT_FREQUENCIES

(* annual rates whose period rate is 0, 1/10 or 1/2 *)
AnnualRates(freq) == {0, 10 * payments_per_year(freq),
                      50 * payments_per_year(freq)}

Tenures(freq) == {t \in 1 .. MaxPayments :
                    _calculate_total_payments(freq, t) <= MaxPayments}

ExtraPayment == [payment_number : 1 .. MaxPayments, amount : ExtraAmounts]

PaymentHoliday == {h \in [start_payment : 1 .. MaxPayments,
                          end_payment : 1 .. MaxPayments] :
                     h.start_payment <= h.end_payment}

SeqsUpTo(S, n) == UNION {[1 .. k -> S] : k \in 0 .. n}

(* None and a value that is present *)
None == <<>>
Some(x) == <<x>>

StartDates == {<<2024, 1, 15>>}

(* the date of the day, which datetime.now() returns *)
Today == <<2024, 1, 15>>

(* self.start_date before the calculator is constructed *)
NoDate == <<0, 0, 0>>

----------------------------------------------------------------------------
(* State machine *)

(* before generate_amortization_schedule has run: no locals, no outcome *)
NoLocals ==
    /\ stage = "summary"
    /\ payment_num = 0
    /\ balance = 0
    /\ regular_payment = 0
    /\ payment_date = start_date
    /\ extra_payment_map = [k \in {} |-> 0]
    /\ holiday_periods = {}
    /\ schedule = <<>>
    /\ summary = NoSummary
    /\ affordability = None
    /\ result = None
    /\ error = <<>>
    /\ http_status = 0

(* no other request in flight, empty tables, no reply *)
NoService ==
    /\ users = <<>>
    /\ otps = <<>>
    /\ utc = 0
    /\ reply = None

Alone ==
    /\ now = Today
    /\ other = None
    /\ NoService

Init ==
    /\ payment_frequency \in Frequencies
    /\ annual_rate \in AnnualRates(payment_frequency)
    /\ tenure_months \in Tenures(payment_frequency)
    /\ principal \in Principals
    /\ down_payment \in DownPayments
    /\ extra_payments \in SeqsUpTo(ExtraPayment, MaxExtras)
    /\ payment_holidays \in SeqsUpTo(PaymentHoliday, 1)
    /\ start_date \in StartDates
    /\ start_param = Some(start_date)
    /\ monthly_income = None
    /\ missing = {}
    /\ pc = "constructed"
    /\ NoLocals
    /\ Alone

(* lines 95-109: locals set up before the loop *)
SetUpLocals ==
    /\ schedule' = <<>>
    /\ balance' = net_principal
    /\ regular_payment' = calculate_payment(net_principal, period_rate,
                                            total_payments)
    /\ payment_date' = start_date
    /\ extra_payment_map' = BuildExtraMap(extra_payments)
    /\ holiday_periods' = BuildHolidayPeriods(payment_holidays)
    /\ payment_num' = 1
    /\ pc' = "loop"

(* line 189: calculate_summary calls generate_amortization_schedule *)
GenerateStart ==
    /\ pc = "constructed"
    /\ SetUpLocals
    /\ UNCHANGED <<inputs, outcome, stage, summary>>

(* line 111: range(1, total_payments + 1) is exhausted *)
LoopExit ==
    /\ pc = "loop"
    /\ payment_num > total_payments
    /\ pc' = "returned"
    /\ UNCHANGED <<inputs, outcome, stage, payment_num, balance,
                   regular_payment, payment_date, extra_payment_map,
                   holiday_periods, schedule, summary>>

(* lines 112-113: if balance <= 0: break *)
LoopBreak ==
    /\ pc = "loop"
    /\ payment_num <= total_payments
    /\ LoopBreaks(balance)
    /\ pc' = "returned"
    /\ UNCHANGED <<inputs, outcome, stage, payment_num, balance,
                   regular_payment, payment_date, extra_payment_map,
                   holiday_periods, schedule, summary>>

(* lines 127 and 161: payment_date is advanced after the entry is        *)
(* appended; datetime.replace raises ValueError when the day is not in    *)
(* the next month                                                          *)
AdvanceDate ==
    LET next == _get_next_payment_date(payment_date, payment_frequency)
    IN IF IsDate(next)
       THEN /\ payment_date' = next
            /\ payment_num' = payment_num + 1
            /\ UNCHANGED <<pc, error>>
       ELSE /\ pc' = "raised"
            /\ error' = <<"ValueError", "day is out of range for month">>
            /\ UNCHANGED <<payment_date, payment_num>>

(* lines 116-128: a period inside a payment holiday *)
HolidayStep ==
    /\ pc = "loop"
    /\ payment_num <= total_payments
    /\ ~LoopBreaks(balance)
    /\ payment_num \in holiday_periods
    /\ schedule' = Append(schedule, Dated(HolidayEntry(payment_num, balance),
                                          payment_date))
    /\ AdvanceDate
    /\ UNCHANGED <<inputs, affordability, result, http_status, stage,
                   balance, regular_payment, extra_payment_map,
                   holiday_periods, summary>>

(* lines 130-161: a normal period *)
NormalStep ==
    /\ pc = "loop"
    /\ payment_num <= total_payments
    /\ ~LoopBreaks(balance)
    /\ payment_num \notin holiday_periods
    /\ LET entry == NormalEntry(payment_num, balance, regular_payment,
                                period_rate, extra_payment_map)
       IN /\ schedule' = Append(schedule, Dated(entry, payment_date))
          /\ balance' = entry.balance
    /\ AdvanceDate
    /\ UNCHANGED <<inputs, affordability, result, http_status, stage,
                   regular_payment, extra_payment_map, holiday_periods,
                   summary>>

(* lines 189-217: the summary of the generated schedule *)
CalculateSummary ==
    /\ pc = "returned"
    /\ stage = "summary"
    /\ summary' = MakeSummary(schedule,
                              calculate_payment(net_principal, period_rate,
                                                total_payments),
                              net_principal)
    /\ pc' = "summarised"
    /\ UNCHANGED <<inputs, outcome, stage, payment_num, balance,
                   regular_payment, payment_date, extra_payment_map,
                   holiday_periods, schedule>>

Next ==
    \/ GenerateStart
    \/ LoopExit
    \/ LoopBreak
    \/ HolidayStep
    \/ NormalStep
    \/ CalculateSummary

Spec == Init /\ [][Next]_vars

----------------------------------------------------------------------------
(* calculate_loan, lines 268-277: the calculator is constructed from the  *)
(* params; line 53 looks the frequency up in PAYMENT_FREQUENCIES           *)

(* app.py line 587; also the keys calculate_loan subscripts, in order *)
required_fields == <<"principal", "annual_rate", "tenure_months">>

(* the first of the fields, in the order of fs, that is in ms; "" if none *)
FirstMissing(fs, ms) ==
    IF \E i \in DOMAIN fs : fs[i] \in ms
    THEN fs[CHOOSE i \in DOMAIN fs :
              fs[i] \in ms /\ \A j \in 1 .. i - 1 : fs[j] \notin ms]
    ELSE ""

(* line 52: self.start_date = start_date or datetime.now() *)
ResolveStart(opt, today) == IF opt = None THEN today ELSE opt[1]

Construct ==
    /\ pc = "called"
    /\ IF missing # {}
       THEN /\ pc' = "raised"
            /\ error' = <<"KeyError", FirstMissing(required_fields, missing)>>
            /\ UNCHANGED start_date
       ELSE IF payment_frequency \in DOMAIN PAYMENT_FREQUENCIES
       THEN /\ pc' = "constructed"
            /\ start_date' = ResolveStart(start_param, now)
            /\ UNCHANGED error
       ELSE /\ pc' = "raised"
            /\ error' = <<"KeyError", payment_frequency>>
            /\ UNCHANGED start_date
    /\ UNCHANGED <<params, environment, affordability, result, http_status,
                   stage, payment_num, balance, regular_payment, payment_date,
                   extra_payment_map, holiday_periods, schedule, summary>>

(* the frequencies a request may name: the three known ones and others *)
RequestFrequencies == Frequencies \cup {"fortnightly"}

(* the calculator is constructed, __init__ has returned *)
Constructed ==
    /\ payment_frequency \in Frequencies
    /\ pc \notin {"request", "called"}

----------------------------------------------------------------------------
(* The route /api/loan/calculate, app.py lines 577-597, and the rest of   *)
(* calculate_loan                                                          *)

(* variant: tenure_months not among the fields looked for *)
CheckedFields_Short == <<"principal", "annual_rate">>

(* app.py line 587: the fields the route looks for *)
CheckedFields == required_fields

(* app.py lines 583-590 *)
ApiValidate ==
    /\ pc = "request"
    /\ LET field == FirstMissing(CheckedFields, missing)
       IN IF field # ""
          THEN /\ pc' = "responded"
               /\ http_status' = 400
               /\ error' = <<"Missing required field", field>>
          ELSE /\ pc' = "called"
               /\ UNCHANGED <<http_status, error>>
    /\ UNCHANGED <<inputs, affordability, result, stage, payment_num,
                   balance, regular_payment, payment_date,
                   extra_payment_map, holiday_periods, schedule, summary>>

(* line 283: the schedule is generated a second time *)
GenerateAgain ==
    /\ pc = "summarised"
    /\ stage' = "schedule"
    /\ SetUpLocals
    /\ UNCHANGED <<inputs, outcome, summary>>

(* variant: the test is for presence, an income of 0 counts as given *)
Truthy_Present(opt) == opt # None

(* if params.get('monthly_income'): neither None nor 0 *)
Truthy(opt) == opt # None /\ opt[1] # 0

(* variant: the analysis made whether or not an income is given *)
AffordabilityFor_Always(opt, pay, freq) ==
    Some(calculate_affordability(pay, freq,
                                 IF opt = None THEN 0 ELSE opt[1]))

(* lines 286-288 *)
AffordabilityFor(opt, pay, freq) ==
    IF Truthy(opt) THEN Some(calculate_affordability(pay, freq, opt[1]))
    ELSE None

(* lines 286-304: the affordability analysis and the returned dict *)
ReturnLoan ==
    /\ pc = "returned"
    /\ stage = "schedule"
    /\ LET a == AffordabilityFor(monthly_income,
                                 calculate_payment(net_principal,
                                                   period_rate,
                                                   total_payments),
                                 payment_frequency)
       IN IF a # None /\ a[1].debt_to_income_ratio[2] = 0
          THEN /\ pc' = "raised"
               /\ error' = <<"DivisionByZero", "">>
               /\ UNCHANGED <<affordability, result>>
          ELSE /\ pc' = "loan_returned"
               /\ affordability' = a
               /\ result' = Some([summary |-> summary,
                                   schedule |-> schedule,
                                   affordability |-> a])
               /\ UNCHANGED error
    /\ UNCHANGED <<inputs, http_status, stage, payment_num, balance,
                   regular_payment, payment_date, extra_payment_map,
                   holiday_periods, schedule, summary>>

(* app.py line 595: return jsonify(result), 200 *)
ApiRespond ==
    /\ pc = "loan_returned"
    /\ pc' = "responded"
    /\ http_status' = 200
    /\ UNCHANGED <<inputs, affordability, result, error, stage, payment_num,
                   balance, regular_payment, payment_date,
                   extra_payment_map, holiday_periods, schedule, summary>>

(* app.py lines 596-597: except Exception: the error and 500 *)
ApiError ==
    /\ pc = "raised"
    /\ pc' = "responded"
    /\ http_status' = 500
    /\ UNCHANGED <<inputs, affordability, result, error, stage, payment_num,
                   balance, regular_payment, payment_date,
                   extra_payment_map, holiday_periods, schedule, summary>>

(* request values: valid ones, and negative amounts, rates and tenures *)
ApiPrincipals == {Cents(100), -Cents(100)}

ApiDownPayments == {0, Cents(200)}

ApiRates(freq) ==
    IF freq \in Frequencies
    THEN {0, 10 * payments_per_year(freq), -10 * payments_per_year(freq)}
    ELSE {0}

ApiTenures(freq) ==
    IF freq \in Frequencies
    THEN {-1} \cup {t \in Tenures(freq) : t <= 2}
    ELSE {1}

ApiStartDates == StartDates \cup {<<2024, 1, 31>>}

ApiIncomes == {None, Some(0), Some(Cents(100)), Some(-Cents(100))}

ApiExtras == {<<>>, <<[payment_number |-> 1, amount |-> Cents(200)]>>}

ApiHolidays == {<<>>, <<[start_payment |-> 1, end_payment |-> 1]>>}

InitApi ==
    /\ missing \in SUBSET {required_fields[i] : i \in DOMAIN required_fields}
    /\ payment_frequency \in
         IF missing = {} THEN RequestFrequencies ELSE {"monthly"}
    /\ annual_rate \in
         IF missing = {} THEN ApiRates(payment_frequency) ELSE {0}
    /\ tenure_months \in
         IF missing = {} THEN ApiTenures(payment_frequency) ELSE {1}
    /\ principal \in IF missing = {} THEN ApiPrincipals ELSE {Cents(100)}
    /\ down_payment \in IF missing = {} THEN ApiDownPayments ELSE {0}
    /\ extra_payments \in IF missing = {} THEN ApiExtras ELSE {<<>>}
    /\ payment_holidays \in IF missing = {} THEN ApiHolidays ELSE {<<>>}
    /\ start_param \in {Some(d) : d \in IF missing = {} THEN ApiStartDates
                                                         ELSE StartDates}
    /\ start_date = NoDate
    /\ monthly_income \in IF missing = {} THEN ApiIncomes ELSE {None}
    /\ pc = "request"
    /\ NoLocals
    /\ Alone

NextApi ==
    \/ ApiValidate
    \/ Construct
    \/ GenerateAgain
    \/ ReturnLoan
    \/ ApiRespond
    \/ ApiError
    \/ Next

SpecApi == InitApi /\ [][NextApi]_vars

----------------------------------------------------------------------------
(* Construction alone, over every tenure up to MaxTenure months *)

InitTerms ==
    /\ payment_frequency \in RequestFrequencies
    /\ annual_rate = 0
    /\ tenure_months \in 1 .. MaxTenure
    /\ principal \in Principals
    /\ down_payment = 0
    /\ extra_payments = <<>>
    /\ payment_holidays = <<>>
    /\ start_param \in {Some(d) : d \in StartDates}
    /\ start_date = NoDate
    /\ monthly_income = None
    /\ missing = {}
    /\ pc = "called"
    /\ NoLocals
    /\ Alone

NextTerms == Construct

SpecTerms == InitTerms /\ [][NextTerms]_vars

----------------------------------------------------------------------------
(* calculate_affordability called on a constructed calculator *)

CalculateAffordability ==
    /\ pc = "constructed"
    /\ monthly_income # None
    /\ LET a == calculate_affordability(
                    calculate_payment(net_principal, period_rate,
                                      total_payments),
                    payment_frequency, monthly_income[1])
       IN IF a.debt_to_income_ratio[2] = 0
          THEN /\ pc' = "raised"
               /\ error' = <<"DivisionByZero", "">>
               /\ UNCHANGED affordability
          ELSE /\ pc' = "assessed"
               /\ affordability' = Some(a)
               /\ UNCHANGED error
    /\ UNCHANGED <<inputs, result, http_status, stage, payment_num, balance,
                   regular_payment, payment_date, extra_payment_map,
                   holiday_periods, schedule, summary>>

(* incomes: negative, zero, and positive ones that put the ratio of some  *)
(* loan of the input set on a threshold                                    *)
Incomes == {-Cents(100), 0, Cents(25), Cents(100)}

AffordPrincipals == Principals \cup {Cents(43)}

InitAfford ==
    /\ payment_frequency \in Frequencies
    /\ annual_rate \in AnnualRates(payment_frequency)
    /\ tenure_months \in Tenures(payment_frequency)
    /\ principal \in AffordPrincipals
    /\ down_payment \in DownPayments
    /\ extra_payments = <<>>
    /\ payment_holidays = <<>>
    /\ start_date \in StartDates
    /\ start_param = Some(start_date)
    /\ monthly_income \in {Some(i) : i \in Incomes}
    /\ missing = {}
    /\ pc = "constructed"
    /\ NoLocals
    /\ Alone

NextAfford == CalculateAffordability

SpecAfford == InitAfford /\ [][NextAfford]_vars

----------------------------------------------------------------------------
(* Well-formed loans over start dates of every day of the month *)

CalendarDates ==
    {d \in {2023, 2024} \X {1, 2, 12} \X (1 .. 31) : IsDate(d)}

InitDates ==
    /\ payment_frequency \in Frequencies
    /\ annual_rate \in {0, 10 * payments_per_year(payment_frequency)}
    /\ tenure_months \in Tenures(payment_frequency)
    /\ principal = Cents(100)
    /\ down_payment = 0
    /\ extra_payments \in ApiExtras
    /\ payment_holidays \in ApiHolidays
    /\ start_date \in CalendarDates
    /\ start_param = Some(start_date)
    /\ monthly_income = None
    /\ missing = {}
    /\ pc = "constructed"
    /\ NoLocals
    /\ Alone

SpecDates == InitDates /\ [][Next]_vars

----------------------------------------------------------------------------
(* Long loans: a hundred years of monthly payments and a month more, one  *)
(* cent of an interest-free principal to the payment                       *)

InitLong ==
    /\ payment_frequency = "monthly"
    /\ annual_rate = 0
    /\ tenure_months \in {1200, 1201}
    /\ principal = Cents(tenure_months)
    /\ down_payment = 0
    /\ extra_payments \in
         {<<>>, <<[payment_number |-> 1, amount |-> principal]>>}
    /\ payment_holidays \in ApiHolidays
    /\ start_date \in StartDates
    /\ start_param = Some(start_date)
    /\ monthly_income = None
    /\ missing = {}
    /\ pc = "constructed"
    /\ NoLocals
    /\ Alone

SpecLong == InitLong /\ [][Next]_vars

----------------------------------------------------------------------------
(* Interest-free loans, the loan of 120000.00 over 12 months among them *)

ZeroRatePrincipals == Principals \cup {Cents(12000000)}

ZeroRateTenures(freq) ==
    Tenures(freq) \cup (IF freq = "monthly" THEN {12} ELSE {})

InitZeroRate ==
    /\ payment_frequency \in Frequencies
    /\ annual_rate = 0
    /\ tenure_months \in ZeroRateTenures(payment_frequency)
    /\ principal \in ZeroRatePrincipals
    /\ down_payment = 0
    /\ extra_payments \in SeqsUpTo(ExtraPayment, 1)
    /\ payment_holidays \in SeqsUpTo(PaymentHoliday, 1)
    /\ start_date \in StartDates
    /\ start_param = Some(start_date)
    /\ monthly_income = None
    /\ missing = {}
    /\ pc = "constructed"
    /\ NoLocals
    /\ Alone

SpecZeroRate == InitZeroRate /\ [][Next]_vars

----------------------------------------------------------------------------
(* Loans of a cent, which one regular payment pays off, next to loans of  *)
(* 23 cents                                                                *)
CentPrincipals == {Cents(1), Cents(23)}

InitCent ==
    /\ payment_frequency \in Frequencies
    /\ annual_rate \in AnnualRates(payment_frequency)
    /\ tenure_months \in Tenures(payment_frequency)
    /\ principal \in CentPrincipals
    /\ down_payment = 0
    /\ extra_payments \in SeqsUpTo(ExtraPayment, MaxExtras)
    /\ payment_holidays \in SeqsUpTo(PaymentHoliday, 1)
    /\ start_date \in StartDates
    /\ start_param = Some(start_date)
    /\ monthly_income = None
    /\ missing = {}
    /\ pc = "constructed"
    /\ NoLocals
    /\ Alone

SpecCent == InitCent /\ [][Next]_vars

----------------------------------------------------------------------------
(* Requests whose extra_payments name a payment number more than once *)
DupExtra == [payment_number : 1 .. 2,
             amount : ExtraAmounts \cup {Cents(20)}]

DupHolidays == {<<>>, <<[start_payment |-> 2, end_payment |-> 2]>>}

InitExtras ==
    /\ payment_frequency = "monthly"
    /\ annual_rate \in AnnualRates(payment_frequency)
    /\ tenure_months \in Tenures(payment_frequency)
    /\ principal \in Principals
    /\ down_payment = 0
    /\ extra_payments \in SeqsUpTo(DupExtra, MaxDuplicates)
    /\ payment_holidays \in DupHolidays
    /\ start_date \in StartDates
    /\ start_param = Some(start_date)
    /\ monthly_income = None
    /\ missing = {}
    /\ pc = "constructed"
    /\ NoLocals
    /\ Alone

SpecExtras == InitExtras /\ [][Next]_vars

----------------------------------------------------------------------------
(* Two invocations of calculate_loan served by two workers.  The          *)
(* variables hold the invocation that is running; `other` holds the one   *)
(* that is suspended: its params, its calculator (self.start_date) and    *)
(* the locals of its frames.  Switch hands the processor over between any *)
(* two steps; Tick is midnight, after which datetime.now() is another     *)
(* date.                                                                   *)

(* the params, the calculator and the frames of the running invocation *)
Invocation ==
    [principal |-> principal, annual_rate |-> annual_rate,
     tenure_months |-> tenure_months,
     payment_frequency |-> payment_frequency,
     down_payment |-> down_payment, extra_payments |-> extra_payments,
     payment_holidays |-> payment_holidays, start_param |-> start_param,
     monthly_income |-> monthly_income, missing |-> missing,
     start_date |-> start_date, pc |-> pc, stage |-> stage,
     payment_num |-> payment_num, balance |-> balance,
     regular_payment |-> regular_payment, payment_date |-> payment_date,
     extra_payment_map |-> extra_payment_map,
     holiday_periods |-> holiday_periods, schedule |-> schedule,
     summary |-> summary, affordability |-> affordability,
     result |-> result, error |-> error, http_status |-> http_status]

(* the request of an invocation *)
ParamsOf(inv) ==
    <<inv.principal, inv.annual_rate, inv.tenure_months,
      inv.payment_frequency, inv.down_payment, inv.extra_payments,
      inv.payment_holidays, inv.start_param, inv.monthly_income,
      inv.missing>>

(* the params and the calculator of the invocation resumed *)
ResumeTerms(inv) ==
    /\ principal' = inv.principal
    /\ annual_rate' = inv.annual_rate
    /\ tenure_months' = inv.tenure_months
    /\ payment_frequency' = inv.payment_frequency
    /\ down_payment' = inv.down_payment
    /\ extra_payments' = inv.extra_payments
    /\ payment_holidays' = inv.payment_holidays
    /\ start_param' = inv.start_param
    /\ monthly_income' = inv.monthly_income
    /\ missing' = inv.missing
    /\ start_date' = inv.start_date

(* variant: extra_payment_map kept in one place for all invocations, so   *)
(* that the invocation resumed finds the map of the one suspended         *)
ResumeFrames_SharedMap(inv) ==
    /\ pc' = inv.pc
    /\ stage' = inv.stage
    /\ payment_num' = inv.payment_num
    /\ balance' = inv.balance
    /\ regular_payment' = inv.regular_payment
    /\ payment_date' = inv.payment_date
    /\ extra_payment_map' = extra_payment_map
    /\ holiday_periods' = inv.holiday_periods
    /\ schedule' = inv.schedule
    /\ summary' = inv.summary
    /\ affordability' = inv.affordability
    /\ result' = inv.result
    /\ error' = inv.error
    /\ http_status' = inv.http_status

(* lines 95-109 and 279-288: schedule, balance, regular_payment,          *)
(* extra_payment_map, holiday_periods, payment_date, summary and          *)
(* affordability are locals of the frames of the invocation               *)
ResumeFrames(inv) ==
    /\ pc' = inv.pc
    /\ stage' = inv.stage
    /\ payment_num' = inv.payment_num
    /\ balance' = inv.balance
    /\ regular_payment' = inv.regular_payment
    /\ payment_date' = inv.payment_date
    /\ extra_payment_map' = inv.extra_payment_map
    /\ holiday_periods' = inv.holiday_periods
    /\ schedule' = inv.schedule
    /\ summary' = inv.summary
    /\ affordability' = inv.affordability
    /\ result' = inv.result
    /\ error' = inv.error
    /\ http_status' = inv.http_status

(* the running invocation is suspended and the other one resumed *)
Switch ==
    /\ other # None
    /\ ResumeTerms(other[1])
    /\ ResumeFrames(other[1])
    /\ other' = Some(Invocation)
    /\ UNCHANGED <<now, users, otps, utc, reply>>

(* the dates datetime.now() takes while the two requests are served *)
Days == {Today, NextDay(Today)}

(* midnight passes *)
Tick ==
    /\ NextDay(now) \in Days
    /\ now' = NextDay(now)
    /\ UNCHANGED <<params, start_date, other, users, otps, utc, reply,
                   pc, stage, payment_num, balance, regular_payment,
                   payment_date, extra_payment_map, holiday_periods,
                   schedule, summary, outcome>>

(* the requests of the two workers *)
PairExtras == {<<>>, <<[payment_number |-> 1, amount |-> Cents(10)]>>,
               <<[payment_number |-> 1, amount |-> Cents(200)]>>}

PairStarts == {None} \cup {Some(d) : d \in StartDates}

PairRequests ==
    [principal : {Cents(100)}, annual_rate : {120}, tenure_months : {2},
     payment_frequency : {"monthly"}, down_payment : {0},
     extra_payments : PairExtras, payment_holidays : ApiHolidays,
     start_param : PairStarts, monthly_income : {None}, missing : {{}}]

(* an invocation about to enter calculate_loan with request r *)
Called(r) ==
    [principal |-> r.principal, annual_rate |-> r.annual_rate,
     tenure_months |-> r.tenure_months,
     payment_frequency |-> r.payment_frequency,
     down_payment |-> r.down_payment, extra_payments |-> r.extra_payments,
     payment_holidays |-> r.payment_holidays, start_param |-> r.start_param,
     monthly_income |-> r.monthly_income, missing |-> r.missing,
     start_date |-> NoDate, pc |-> "called", stage |-> "summary",
     payment_num |-> 0, balance |-> 0, regular_payment |-> 0,
     payment_date |-> NoDate, extra_payment_map |-> [k \in {} |-> 0],
     holiday_periods |-> {}, schedule |-> <<>>, summary |-> NoSummary,
     affordability |-> None, result |-> None, error |-> <<>>,
     http_status |-> 0]

InitPair ==
    /\ \E r \in PairRequests :
         /\ principal = r.principal
         /\ annual_rate = r.annual_rate
         /\ tenure_months = r.tenure_months
         /\ payment_frequency = r.payment_frequency
         /\ down_payment = r.down_payment
         /\ extra_payments = r.extra_payments
         /\ payment_holidays = r.payment_holidays
         /\ start_param = r.start_param
         /\ monthly_income = r.monthly_income
         /\ missing = r.missing
    /\ start_date = NoDate
    /\ pc = "called"
    /\ NoLocals
    /\ now = Today
    /\ other \in {Some(Called(r)) : r \in PairRequests}
    /\ NoService

NextPair ==
    \/ Switch
    \/ Tick
    \/ Construct
    \/ GenerateAgain
    \/ ReturnLoan
    \/ Next

SpecPair == InitPair /\ [][NextPair]_vars

(* calculate_loan run alone: the loop of lines 111-161 from payment num   *)
(* on, with the balance, the date and the entries it has so far           *)
RECURSIVE SoloLoop(_, _, _, _, _)
SoloLoop(inv, num, bal, date, sched) ==
    LET n == _calculate_total_payments(inv.payment_frequency,
                                       inv.tenure_months)
        r == PeriodRate(inv.annual_rate, inv.payment_frequency)
        net == NetPrincipal(inv.principal, inv.down_payment)
        entry == IF num \in BuildHolidayPeriods(inv.payment_holidays)
                 THEN HolidayEntry(num, bal)
                 ELSE NormalEntry(num, bal, calculate_payment(net, r, n), r,
                                  BuildExtraMap(inv.extra_payments))
        next == _get_next_payment_date(date, inv.payment_frequency)
    IN IF num > n \/ LoopBreaks(bal)
       THEN [schedule |-> sched, error |-> <<>>]
       ELSE IF ~IsDate(next)
       THEN [schedule |-> Append(sched, Dated(entry, date)),
             error |-> <<"ValueError", "day is out of range for month">>]
       ELSE SoloLoop(inv, num + 1, entry.balance, next,
                     Append(sched, Dated(entry, date)))

(* lines 268-304 run alone by a calculator whose start_date is d: the     *)
(* dict returned and the exception raised                                  *)
SoloLoan(inv, d) ==
    LET n == _calculate_total_payments(inv.payment_frequency,
                                       inv.tenure_months)
        r == PeriodRate(inv.annual_rate, inv.payment_frequency)
        net == NetPrincipal(inv.principal, inv.down_payment)
        pay == calculate_payment(net, r, n)
        run == SoloLoop(inv, 1, net, d, <<>>)
        a == AffordabilityFor(inv.monthly_income, pay, inv.payment_frequency)
    IN IF run.error # <<>>
       THEN [result |-> None, error |-> run.error]
       ELSE [result |-> Some([summary |-> MakeSummary(run.schedule, pay, net),
                              schedule |-> run.schedule,
                              affordability |-> a]),
             error |-> <<>>]

(* calculate_loan has returned or raised *)
Finished(inv) == inv.pc \in {"loan_returned", "raised"}

----------------------------------------------------------------------------
(* The routes /api/auth/register and /api/auth/login, app.py lines        *)
(* 176-216 and 259-270, over the tables of storage.py.  `users` is the    *)
(* users table in insertion order, each row with the account_id of its    *)
(* profile row when it has one; `reply` is the request just served and    *)
(* the response to it.                                                     *)

(* the variables of the loan calculation, which these routes leave alone *)
loan == <<params, start_date, pc, stage, payment_num, balance,
          regular_payment, payment_date, extra_payment_map, holiday_periods,
          schedule, summary, outcome>>

(* no loan request is being served *)
NoLoan ==
    /\ principal = 0
    /\ annual_rate = 0
    /\ tenure_months = 0
    /\ payment_frequency = "monthly"
    /\ down_payment = 0
    /\ extra_payments = <<>>
    /\ payment_holidays = <<>>
    /\ start_param = None
    /\ monthly_income = None
    /\ missing = {}
    /\ start_date = NoDate
    /\ pc = "idle"
    /\ NoLocals

(* bcrypt.generate_password_hash(password): the salted hash of a password *)
Hash(password) == <<"bcrypt", password>>

(* variant: any password accepted *)
CheckPassword_Any(pw_hash, password) == TRUE

(* bcrypt.check_password_hash(pw_hash, password) *)
CheckPassword(pw_hash, password) == pw_hash = Hash(password)

(* User.query.filter_by(username=username).first(), None when no row *)
get_user_by_username(username) ==
    LET js == {j \in DOMAIN users : users[j].username = username}
    IN IF js = {} THEN None
       ELSE Some(users[CHOOSE j \in js : \A h \in js : j <= h])

(* storage.py line 203: account_id = "TC-" + the first 4 characters of    *)
(* the user id; the column is unique                                       *)
AccountIdTaken(prefix) ==
    \E j \in DOMAIN users : users[j].account_id = Some(prefix)

(* the first four characters of a uuid4, and the rest of it: the serial   *)
(* of the row stands for the rest, which never repeats                    *)
IdPrefixes == {"a1b2", "c3d4"}

Usernames == {"", "demo", "testuser", "newuser"}

Passwords == {"", "password123", "testpassword"}

(* app.py lines 881-887, seed_data at start-up: the table is empty, the   *)
(* user demo is added with its profile                                     *)
Seeded(prefix) ==
    <<[id |-> <<prefix, 1>>, username |-> "demo",
       password_hash |-> Hash("password123"), account_id |-> Some(prefix)]>>

(* app.py lines 176-216, for a request without email: 400 without         *)
(* username or password; the unique username or the unique account_id     *)
(* makes the commit raise IntegrityError, answered 500, in the second     *)
(* case after the users row was committed                                  *)
Register(username, password, prefix) ==
    /\ pc = "idle"
    /\ IF username = "" \/ password = ""
       THEN /\ reply' = Some([route |-> "register", username |-> username,
                              password |-> password, status |-> 400,
                              token |-> None])
            /\ UNCHANGED users
       ELSE IF get_user_by_username(username) # None
       THEN /\ reply' = Some([route |-> "register", username |-> username,
                              password |-> password, status |-> 500,
                              token |-> None])
            /\ UNCHANGED users
       ELSE /\ Len(users) < MaxUsers
            /\ users' = Append(users,
                               [id |-> <<prefix, Len(users) + 1>>,
                                username |-> username,
                                password_hash |-> Hash(password),
                                account_id |-> IF AccountIdTaken(prefix)
                                               THEN None ELSE Some(prefix)])
            /\ reply' = Some([route |-> "register", username |-> username,
                              password |-> password,
                              status |-> IF AccountIdTaken(prefix)
                                         THEN 500 ELSE 201,
                              token |-> None])
    /\ UNCHANGED <<loan, now, other, otps, utc>>

(* app.py lines 259-270 *)
Login(username, password) ==
    /\ pc = "idle"
    /\ LET user == get_user_by_username(username)
       IN IF user # None /\ CheckPassword(user[1].password_hash, password)
          THEN reply' = Some([route |-> "login", username |-> username,
                              password |-> password, status |-> 200,
                              token |-> Some(user[1].id)])
          ELSE reply' = Some([route |-> "login", username |-> username,
                              password |-> password, status |-> 401,
                              token |-> None])
    /\ UNCHANGED <<loan, now, other, users, otps, utc>>

InitAuth ==
    /\ NoLoan
    /\ now = Today
    /\ other = None
    /\ users \in {Seeded(x) : x \in IdPrefixes}
    /\ otps = <<>>
    /\ utc = 0
    /\ reply = None

NextAuth ==
    \/ \E u \in Usernames, p \in Passwords, x \in IdPrefixes :
         Register(u, p, x)
    \/ \E u \in Usernames, p \in Passwords : Login(u, p)

SpecAuth == InitAuth /\ [][NextAuth]_vars

----------------------------------------------------------------------------
(* The routes /api/auth/send-otp and /api/auth/verify-otp, app.py lines   *)
(* 121-174, over the email_verification table of storage.py lines         *)
(* 173-192.  `otps` is the table, `utc` is datetime.utcnow() in minutes.  *)

(* storage.py line 173: expiry_minutes=10 *)
expiry_minutes == 10

(* minutes between two readings of the clock *)
TickMinutes == 5

Emails == {"", "a@example.com", "b@example.com"}

(* str(random.randint(100000, 999999)): the least and the greatest code *)
Codes == {"100000", "999999"}

(* EmailVerification.query.filter_by(email=email).first(), None if no row *)
get_otp(email) ==
    LET js == {j \in DOMAIN otps : otps[j].email = email}
    IN IF js = {} THEN None
       ELSE Some(otps[CHOOSE j \in js : \A h \in js : j <= h])

(* the table without the first row of an email (session.delete) *)
WithoutOtp(email) ==
    LET js == {j \in DOMAIN otps : otps[j].email = email}
        first == CHOOSE j \in js : \A h \in js : j <= h
    IN IF js = {} THEN otps
       ELSE SubSeq(otps, 1, first - 1) \o SubSeq(otps, first + 1, Len(otps))

(* storage.py lines 173-183.  Without a row for the email the new row is  *)
(* inserted.  With one, the session holds a delete of the old row and an  *)
(* insert of the new one when commit flushes it; the unit of work of      *)
(* SQLAlchemy emits the INSERT before the DELETE (the two rows have       *)
(* different primary keys), the unique column email rejects the INSERT    *)
(* and commit raises IntegrityError: the table is left as it was.         *)
save_otp(email, otp) ==
    IF get_otp(email) = None
    THEN [raised |-> FALSE,
          table |-> Append(otps, [email |-> email, otp |-> otp,
                                  expires_at |-> utc + expiry_minutes])]
    ELSE [raised |-> TRUE, table |-> otps]

(* app.py lines 121-153.  deliverable: validate_email and                 *)
(* verify_mailbox_smtp accept the address.  send_otp has no try: the      *)
(* IntegrityError of save_otp is answered 500.                            *)
SendOtp(email, deliverable, code) ==
    /\ pc = "idle"
    /\ IF email = ""
       THEN /\ reply' = Some([route |-> "send-otp", email |-> email,
                              otp |-> "", at |-> utc, status |-> 400,
                              message |-> "Email is required"])
            /\ UNCHANGED otps
       ELSE IF ~deliverable
       THEN /\ reply' = Some([route |-> "send-otp", email |-> email,
                              otp |-> "", at |-> utc, status |-> 400,
                              message |-> "Invalid email"])
            /\ UNCHANGED otps
       ELSE LET saved == save_otp(email, code)
            IN /\ otps' = saved.table
               /\ reply' = Some([route |-> "send-otp", email |-> email,
                                 otp |-> code, at |-> utc,
                                 status |-> IF saved.raised THEN 500
                                            ELSE 200,
                                 message |-> IF saved.raised
                                             THEN "IntegrityError"
                                             ELSE "Verification code sent"])
    /\ UNCHANGED <<loan, now, other, users, utc>>

(* app.py lines 161-174: the answer to a verify request and whether the   *)
(* row is deleted                                                          *)
VerifyOutcome(record, user_otp, t) ==
    IF record = None
    THEN [status |-> 400, message |-> "No valid code found.",
          delete |-> FALSE]
    ELSE IF t > record[1].expires_at
    THEN [status |-> 400, message |-> "Code expired.", delete |-> TRUE]
    ELSE IF record[1].otp # user_otp
    THEN [status |-> 400, message |-> "Invalid code.", delete |-> FALSE]
    ELSE [status |-> 200, message |-> "Email verified successfully.",
          delete |-> TRUE]

(* app.py lines 155-174 *)
VerifyOtp(email, user_otp) ==
    /\ pc = "idle"
    /\ LET outcome_ == VerifyOutcome(get_otp(email), user_otp, utc)
       IN /\ otps' = IF outcome_.delete THEN WithoutOtp(email) ELSE otps
          /\ reply' = Some([route |-> "verify-otp", email |-> email,
                            otp |-> user_otp, at |-> utc,
                            status |-> outcome_.status,
                            message |-> outcome_.message])
    /\ UNCHANGED <<loan, now, other, users, utc>>

(* time passes between two requests *)
ClockTick ==
    /\ pc = "idle"
    /\ utc < MaxClock * TickMinutes
    /\ utc' = utc + TickMinutes
    /\ UNCHANGED <<loan, now, other, users, otps, reply>>

InitOtp ==
    /\ NoLoan
    /\ Alone

NextOtp ==
    \/ \E e \in Emails, d \in BOOLEAN, c \in Codes : SendOtp(e, d, c)
    \/ \E e \in Emails, c \in Codes : VerifyOtp(e, c)
    \/ ClockTick

SpecOtp == InitOtp /\ [][NextOtp]_vars

----------------------------------------------------------------------------
(* Vocabulary of the properties *)

Entries == DOMAIN schedule

BalanceBefore(i) == IF i = 1 THEN net_principal ELSE schedule[i - 1].balance

FinalBalance ==
    IF schedule = <<>> THEN net_principal ELSE schedule[Len(schedule)].balance

(* the extra payment registered for the period of entry i *)
RegisteredExtra(i) == ExtraFor(extra_payment_map, schedule[i].payment_number)

(* the principal portion of entry i before the overpayment clamp *)
UnclampedPrincipal(i) == schedule[i].payment - schedule[i].interest

ClampFired(i) ==
    /\ ~schedule[i].is_holiday
    /\ UnclampedPrincipal(i) + RegisteredExtra(i) > BalanceBefore(i)

Plain == extra_payments = <<>> /\ payment_holidays = <<>>

Generated == pc \in {"returned", "summarised"}

----------------------------------------------------------------------------
(* C1: the balance recorded in every entry of the schedule, holiday or    *)
(* not, is never negative.                                                 *)
C1_BalanceNeverNegative ==
    \A i \in Entries : schedule[i].balance >= 0

C1_Witness ==
    /\ Generated
    /\ \E i, j \in Entries :
         /\ schedule[i].is_holiday
         /\ ClampFired(j)
         /\ RegisteredExtra(j) > BalanceBefore(j)

C3_ZeroBalanceIsLast ==
    \A i \in Entries : schedule[i].balance = 0 => i = Len(schedule)

C3_Witness ==
    /\ Generated
    /\ schedule # <<>>
    /\ FinalBalance = 0
    /\ schedule[Len(schedule)].payment_number < total_payments

(* C4: a holiday entry records payment, principal, interest and extra     *)
(* payment 0 and the balance before the period, also when an extra        *)
(* payment is registered for the period and the rate is positive.         *)
C4_HolidayEntryFrozen ==
    \A i \in Entries :
        schedule[i].is_holiday =>
            /\ schedule[i].payment = 0
            /\ schedule[i].principal = 0
            /\ schedule[i].interest = 0
            /\ schedule[i].extra_payment = 0
            /\ schedule[i].balance = BalanceBefore(i)

C4_Witness ==
    \E i \in Entries :
        /\ schedule[i].is_holiday
        /\ schedule[i].payment_number \in DOMAIN extra_payment_map
        /\ period_rate[1] > 0
        /\ i > 1

(* C5, as stated: when the clamp fires and the extra payment alone covers *)
(* the balance the entry records principal 0 and extra_payment = balance;  *)
(* otherwise extra_payment unchanged and principal = balance - extra.      *)
C5_ClampSplit_Original ==
    \A i \in Entries :
        ClampFired(i) =>
            IF RegisteredExtra(i) >= BalanceBefore(i)
            THEN /\ schedule[i].principal = 0
                 /\ schedule[i].extra_payment = BalanceBefore(i)
            ELSE /\ schedule[i].extra_payment = RegisteredExtra(i)
                 /\ schedule[i].principal
                      = BalanceBefore(i) - RegisteredExtra(i)

(* C5, amended: when the clamp fires and the extra payment alone covers   *)
(* the balance the entry records principal = balance and extra_payment 0;  *)
(* otherwise extra_payment unchanged and principal = balance - extra.      *)
C5_ClampSplit ==
    \A i \in Entries :
        ClampFired(i) =>
            IF RegisteredExtra(i) >= BalanceBefore(i)
            THEN /\ schedule[i].principal = BalanceBefore(i)
                 /\ schedule[i].extra_payment = 0
            ELSE /\ schedule[i].extra_payment = RegisteredExtra(i)
                 /\ schedule[i].principal
                      = BalanceBefore(i) - RegisteredExtra(i)

C5_Witness ==
    \E i \in Entries :
        /\ ClampFired(i)
        /\ RegisteredExtra(i) >= BalanceBefore(i)
        /\ UnclampedPrincipal(i) > 0
        /\ i > 1

(* C6: an extra payment at a non-holiday period larger than the balance   *)
(* before it: the recorded principal + extra_payment equals that balance,  *)
(* the resulting balance is 0, and no non-holiday entry follows.           *)
C6_OversizedExtraPaysOff ==
    \A i \in Entries :
        (~schedule[i].is_holiday /\ RegisteredExtra(i) > BalanceBefore(i)) =>
            /\ schedule[i].principal + schedule[i].extra_payment
                 = BalanceBefore(i)
            /\ schedule[i].balance = 0
            /\ \A j \in Entries : j > i => schedule[j].is_holiday

C6_Witness ==
    /\ Generated
    /\ \E i \in Entries :
         /\ ~schedule[i].is_holiday
         /\ RegisteredExtra(i) > BalanceBefore(i)
         /\ i > 1
         /\ schedule[i].payment_number < total_payments

(* C7, as stated: with period_rate > 0, no extra payments and no holidays *)
(* the principal components of the full schedule sum to net_principal     *)
(* within total_payments cents.                                            *)
C7_PrincipalSum_Original ==
    (Generated /\ Plain /\ period_rate[1] > 0) =>
        Abs(net_principal - SumOver(schedule, "principal"))
            <= total_payments * Cents(1)

(* C7, amended: the principal components sum to net_principal minus the   *)
(* final balance, never to more than net_principal, and the final balance *)
(* is at most one cent times ((1 + r)^n - 1) / r, the per-period rounding *)
(* compounded at the period rate r over the n payments.                    *)
C7_PrincipalSum ==
    (Generated /\ Plain /\ period_rate[1] > 0) =>
        /\ SumOver(schedule, "principal") = net_principal - FinalBalance
        /\ FinalBalance >= 0
        /\ FinalBalance * period_rate[1]
                        * Pow(period_rate[2], total_payments - 1)
             <= Cents(1) * (Pow(period_rate[2] + period_rate[1],
                                total_payments)
                            - Pow(period_rate[2], total_payments))

C7_Witness ==
    /\ Generated /\ Plain /\ period_rate[1] > 0
    /\ Len(schedule) = total_payments
    /\ FinalBalance > 0
    /\ FinalBalance <= total_payments * Cents(1)

(* C8, as stated: with no extra payments and no holidays the summary has  *)
(* total_interest = total_paid - net_principal.                            *)
C8_InterestIdentity_Original ==
    (pc = "summarised" /\ Plain) =>
        summary.total_interest = summary.total_paid - net_principal

(* the part of the regular payments that the overpayment clamp cut off *)
RECURSIVE ClampCut(_)
ClampCut(i) ==
    IF i = 0 THEN 0
    ELSE (UnclampedPrincipal(i) - schedule[i].principal) + ClampCut(i - 1)

(* C8, amended: with period_rate > 0, no extra payments and no holidays,  *)
(* total_interest = total_paid - (net_principal - final balance) - (the   *)
(* part of the last regular payment cut off by the overpayment clamp); it *)
(* equals total_paid - net_principal only when the schedule ends at       *)
(* balance 0 without the clamp firing.                                     *)
C8_InterestIdentity ==
    (pc = "summarised" /\ Plain /\ period_rate[1] > 0) =>
        /\ summary.total_interest
             = summary.total_paid - (net_principal - FinalBalance)
                                  - ClampCut(Len(schedule))
        /\ ClampCut(Len(schedule)) >= 0
        /\ ClampCut(Len(schedule)) > 0 => FinalBalance = 0

C8_Witness ==
    /\ pc = "summarised" /\ Plain
    /\ period_rate[1] > 0
    /\ ClampCut(Len(schedule)) > 0
    /\ summary.total_interest > 0

(* C9, as stated: calculate_payment returns a whole number of cents, in   *)
(* the period_rate > 0 branch and in the period_rate = 0 branch.           *)
C9_PaymentQuantized ==
    pc # "constructed" => IsWholeCents(regular_payment)

(* the annuity formula of the specification, as a quotient in cents *)
RefNumerator ==
    net_principal * period_rate[1]
                  * Pow(period_rate[2] + period_rate[1], total_payments)

RefDenominator ==
    CentTicks * period_rate[2]
              * (Pow(period_rate[2] + period_rate[1], total_payments)
                 - Pow(period_rate[2], total_payments))

(* C10: for period_rate r > 0 the regular payment is the whole number of  *)
(* cents nearest to net_principal * r * (1+r)^n / ((1+r)^n - 1), a tie    *)
(* going up.                                                               *)
C10_PaymentMatchesAnnuity ==
    (pc # "constructed" /\ period_rate[1] > 0) =>
        LET c == regular_payment \div CentTicks
        IN /\ IsWholeCents(regular_payment)
           /\ 2 * c * RefDenominator <= 2 * RefNumerator + RefDenominator
           /\ 2 * RefNumerator + RefDenominator < 2 * (c + 1) * RefDenominator

C10_Witness ==
    /\ pc # "constructed"
    /\ period_rate[1] > 0
    /\ total_payments > 1
    /\ 2 * (RefNumerator % RefDenominator) >= RefDenominator

----------------------------------------------------------------------------
(* C11: with annual_rate = 0 the regular payment is net_principal /        *)
(* total_payments (the quotient, to the nearest kept digit), every entry   *)
(* of the schedule has interest 0 and the summary's total_interest is 0;   *)
(* the loan of 120000.00 over 12 monthly payments pays exactly 10000.00    *)
(* and, without extras and holidays, ends with balance 0 at payment 12.    *)
StandardZeroLoan ==
    /\ principal = Cents(12000000)
    /\ down_payment = 0
    /\ annual_rate = 0
    /\ payment_frequency = "monthly"
    /\ tenure_months = 12

C11_ZeroRate ==
    period_rate[1] = 0 =>
      /\ pc # "constructed" =>
            2 * Abs(regular_payment * total_payments - net_principal)
              <= total_payments
      /\ \A i \in Entries : schedule[i].interest = 0
      /\ pc = "summarised" =>
            /\ summary.total_interest = 0
            /\ summary.regular_payment = regular_payment
      /\ StandardZeroLoan =>
            /\ pc # "constructed" => regular_payment = Cents(1000000)
            /\ (Plain /\ Generated) =>
                  /\ Len(schedule) = 12
                  /\ schedule[12].payment_number = 12
                  /\ schedule[12].balance = 0
                  /\ schedule[11].balance > 0

C11_Witness ==
    /\ StandardZeroLoan
    /\ Plain
    /\ pc = "summarised"
    /\ Len(schedule) = 12
    /\ schedule[12].balance = 0
    /\ summary.total_interest = 0

----------------------------------------------------------------------------
(* C12: total_payments is tenure_months for the monthly frequency and     *)
(* floor(tenure_months * payments_per_year / 12) for bi-weekly (26) and   *)
(* weekly (52), for every positive tenure_months.                          *)
C12_TotalPayments ==
    (Constructed /\ tenure_months > 0) =>
      total_payments =
        IF payment_frequency = "monthly" THEN tenure_months
        ELSE (tenure_months * PAYMENT_FREQUENCIES[payment_frequency]) \div 12

C12_Witness ==
    /\ Constructed
    /\ payment_frequency = "weekly"
    /\ tenure_months = 7
    /\ total_payments = 30

----------------------------------------------------------------------------
(* C13: a payment_frequency that is none of monthly, bi-weekly, weekly    *)
(* makes the call fail with an InvalidFrequency error, before any         *)
(* schedule entry is produced and without an output object.               *)
C13_InvalidFrequencyRejected ==
    (missing = {} /\ payment_frequency \notin Frequencies) =>
      /\ schedule = <<>>
      /\ result = None
      /\ pc \in {"request", "called", "raised", "responded"}
      /\ pc \in {"raised", "responded"} => error[1] = "InvalidFrequency"

----------------------------------------------------------------------------
(* C14: a negative principal, annual_rate or tenure_months, or a          *)
(* down_payment above the principal, is rejected with InvalidNumericInput *)
(* before the simulation begins; calculate_loan returns no summary and    *)
(* schedule for such input.                                                *)
InvalidNumericInput ==
    \/ principal < 0
    \/ annual_rate < 0
    \/ tenure_months < 0
    \/ down_payment > principal

C14_InvalidNumericRejected ==
    (missing = {} /\ payment_frequency \in Frequencies
       /\ InvalidNumericInput) =>
      /\ pc \in {"request", "called", "raised", "responded"}
      /\ result = None
      /\ pc \in {"raised", "responded"} => error[1] = "InvalidNumericInput"

----------------------------------------------------------------------------
(* C15: a loan whose total_payments exceeds the safety cap of 1200        *)
(* periods is rejected with ScheduleTooLarge and the simulation loop is   *)
(* never entered; no schedule longer than the cap is ever produced.       *)
C15_ScheduleCapped ==
    /\ Len(schedule) <= 1200
    /\ (Constructed /\ total_payments > 1200) =>
          /\ pc \in {"constructed", "raised"}
          /\ pc = "raised" => error[1] = "ScheduleTooLarge"

----------------------------------------------------------------------------
(* C16: a request that lacks any of principal, annual_rate, tenure_months *)
(* is answered with HTTP 400 naming a field it lacks, and calculate_loan  *)
(* is not invoked.                                                         *)
C16_MissingFieldRejected ==
    missing # {} =>
      /\ pc \in {"request", "responded"}
      /\ result = None
      /\ pc = "responded" =>
            /\ http_status = 400
            /\ error[1] = "Missing required field"
            /\ error[2] \in missing

C16_Witness ==
    /\ missing = {"tenure_months"}
    /\ pc = "responded"
    /\ http_status = 400
    /\ error = <<"Missing required field", "tenure_months">>

----------------------------------------------------------------------------
(* C17: generate_amortization_schedule does not raise on well-formed      *)
(* input: a known frequency, positive total_payments, non-negative        *)
(* net_principal and rate, and any calendar start_date, whatever its day  *)
(* of the month; advancing the payment date never fails.                   *)
WellFormed ==
    /\ payment_frequency \in Frequencies
    /\ total_payments > 0
    /\ net_principal >= 0
    /\ annual_rate >= 0
    /\ IsDate(start_date)

C17_GeneratorNeverRaises ==
    (missing = {} /\ WellFormed) => (pc # "raised" /\ error = <<>>)

----------------------------------------------------------------------------
(* C18: calculate_affordability classifies by debt_to_income_ratio =      *)
(* monthly-equivalent payment / monthly_income * 100 (the payment times   *)
(* 26/12 for bi-weekly, 52/12 for weekly): at most 28 comfortable, above  *)
(* 28 and at most 36 manageable, above 36 and at most 43 stretched, above *)
(* 43 risky; is_affordable is true exactly when the ratio is at most 43,  *)
(* that is exactly when comfort_level is not risky.                        *)
Assessed == affordability # None

C18_Classification ==
    Assessed =>
      LET a == affordability[1]
          ratio == a.debt_to_income_ratio
          pay == calculate_payment(net_principal, period_rate,
                                   total_payments)
      IN /\ a.monthly_income > 0 =>
               ratio[1] * 12 * a.monthly_income
                 = ratio[2] * 100 * pay
                     * (IF payment_frequency = "monthly" THEN 12
                        ELSE IF payment_frequency = "bi-weekly" THEN 26
                        ELSE 52)
         /\ ratio[2] > 0
         /\ a.comfort_level = "comfortable" <=> ratio[1] <= 28 * ratio[2]
         /\ a.comfort_level = "manageable" <=>
               (ratio[1] > 28 * ratio[2] /\ ratio[1] <= 36 * ratio[2])
         /\ a.comfort_level = "stretched" <=>
               (ratio[1] > 36 * ratio[2] /\ ratio[1] <= 43 * ratio[2])
         /\ a.comfort_level = "risky" <=> ratio[1] > 43 * ratio[2]
         /\ a.is_affordable <=> ratio[1] <= 43 * ratio[2]
         /\ a.is_affordable <=> a.comfort_level # "risky"

C18_Witness ==
    /\ Assessed
    /\ affordability[1].debt_to_income_ratio = <<43, 1>>
    /\ affordability[1].comfort_level = "stretched"
    /\ affordability[1].is_affordable

----------------------------------------------------------------------------
(* C19: calculate_affordability with monthly_income <= 0 completes        *)
(* without a division error and returns a result, whose                    *)
(* debt_to_income_ratio is 0.                                              *)
C19_NonPositiveIncome ==
    (monthly_income # None /\ monthly_income[1] <= 0) =>
      /\ error = <<>>
      /\ pc = "constructed" => ENABLED CalculateAffordability
      /\ pc = "assessed" =>
            /\ Assessed
            /\ affordability[1].debt_to_income_ratio = <<0, 1>>

C19_Witness ==
    /\ pc = "assessed"
    /\ monthly_income = Some(0)
    /\ affordability[1].debt_to_income_ratio = <<0, 1>>
    /\ net_principal > 0

----------------------------------------------------------------------------
(* C20: in the output of calculate_loan the affordability is non-null     *)
(* only if a monthly_income was supplied; when it is absent the           *)
(* affordability is null.                                                  *)
C20_AffordabilityOnlyWithIncome ==
    result # None =>
      /\ result[1].affordability # None => monthly_income # None
      /\ monthly_income = None => result[1].affordability = None
      /\ result[1].affordability # None =>
            result[1].affordability[1].monthly_income = monthly_income[1]

C20_Witness ==
    /\ pc = "responded"
    /\ http_status = 200
    /\ monthly_income = Some(Cents(100))
    /\ result[1].affordability # None
    /\ result[1].schedule # <<>>

----------------------------------------------------------------------------
(* C21: two invocations of calculate_loan with identical input produce    *)
(* identical output (summary, schedule with every payment_date,           *)
(* affordability, or the same exception); the output depends on nothing   *)
(* but the params, and not on the time of the call.                       *)
C21_Deterministic ==
    (/\ other # None
     /\ Finished(Invocation)
     /\ Finished(other[1])
     /\ ParamsOf(Invocation) = ParamsOf(other[1]))
    => /\ result = other[1].result
       /\ error = other[1].error

----------------------------------------------------------------------------
(* C22: when two calculate_loan invocations are interleaved step by step  *)
(* in any order, each returns (or raises) exactly what it returns when    *)
(* its calculator runs alone.                                              *)
ReturnsAsAlone(inv) ==
    Finished(inv) =>
      /\ inv.result = SoloLoan(inv, inv.start_date).result
      /\ inv.error = SoloLoan(inv, inv.start_date).error

C22_Independent ==
    other # None => ReturnsAsAlone(Invocation) /\ ReturnsAsAlone(other[1])

C22_Witness ==
    /\ other # None
    /\ pc = "loan_returned"
    /\ result[1].schedule # <<>>
    /\ other[1].pc = "loop"
    /\ other[1].stage = "schedule"
    /\ other[1].schedule # <<>>
    /\ other[1].extra_payments # extra_payments
    /\ other[1].payment_holidays # payment_holidays

----------------------------------------------------------------------------
(* the payment numbers inside a payment_holiday range of the request *)
HolidayNumbers ==
    UNION {payment_holidays[j].start_payment ..
             payment_holidays[j].end_payment : j \in DOMAIN payment_holidays}

(* entry i is a holiday entry that moves no money and keeps the balance *)
HolidayKept(i) ==
    /\ schedule[i].is_holiday
    /\ schedule[i].principal = 0
    /\ schedule[i].interest = 0
    /\ schedule[i].extra_payment = 0

(* for each range whose numbers all have an entry, the balance of the     *)
(* last entry of the range is the balance before the range                *)
RangeKeepsBalance ==
    \A j \in DOMAIN payment_holidays :
      LET ph == payment_holidays[j]
      IN (\A k \in ph.start_payment .. ph.end_payment :
            k \in Entries /\ schedule[k].payment_number = k)
         => schedule[ph.end_payment].balance = BalanceBefore(ph.start_payment)

(* C23 as stated: for every payment_number inside a payment_holiday range *)
(* the generated schedule contains an entry with that number, is_holiday  *)
(* true and principal = interest = extra_payment = 0, and the balance of  *)
(* the last entry of the range equals the balance before the range.       *)
C23_HolidayEntries_Original ==
    Generated =>
      /\ \A k \in HolidayNumbers :
           \E i \in Entries : /\ schedule[i].payment_number = k
                              /\ HolidayKept(i)
      /\ RangeKeepsBalance

(* the loop reaches period k with a balance still to pay *)
Reached(k) ==
    /\ k <= total_payments
    /\ IF k = 1 THEN net_principal > 0
       ELSE k - 1 \in Entries /\ schedule[k - 1].balance > 0

(* C23, amended: a payment_number inside a payment_holiday range has an   *)
(* entry exactly when the loop reaches it (the number is at most          *)
(* total_payments and the balance before it is positive); that entry has  *)
(* is_holiday true, principal = interest = extra_payment = 0 and the      *)
(* balance before it, so the balance of the last entry of a range that    *)
(* is wholly in the schedule equals the balance before the range.         *)
C23_HolidayEntries ==
    /\ \A i \in Entries :
         schedule[i].payment_number \in HolidayNumbers =>
           /\ HolidayKept(i)
           /\ schedule[i].balance = BalanceBefore(i)
    /\ Generated =>
         /\ \A k \in HolidayNumbers :
              Reached(k) <=> (k \in Entries /\ schedule[k].payment_number = k)
         /\ RangeKeepsBalance

C23_Witness ==
    /\ Generated
    /\ Len(payment_holidays) = 1
    /\ payment_holidays[1].start_payment = 2
    /\ payment_holidays[1].end_payment = 3
    /\ Len(schedule) = 4
    /\ schedule[3].is_holiday
    /\ schedule[3].balance = schedule[1].balance
    /\ schedule[1].balance > 0
    /\ schedule[4].balance < schedule[3].balance

----------------------------------------------------------------------------
(* the amount the request registers for payment number k: that of the     *)
(* last entry of extra_payments with this number, 0 when there is none    *)
RegisteredAmount(k) ==
    LET js == {j \in DOMAIN extra_payments :
                 extra_payments[j].payment_number = k}
    IN IF js = {} THEN 0
       ELSE extra_payments[CHOOSE j \in js : \A h \in js : h <= j].amount

(* x is amount rounded half up to whole cents, for amount = numer / denom *)
(* ticks with numer >= 0 and denom > 0                                    *)
IsHalfUpOf(x, numer, denom) ==
    /\ IsWholeCents(x)
    /\ (2 * x - CentTicks) * denom <= 2 * numer
    /\ 2 * numer < (2 * x + CentTicks) * denom

----------------------------------------------------------------------------
(* what entry i draws from the balance *)
Draw(i) == schedule[i].principal + schedule[i].extra_payment

----------------------------------------------------------------------------
(* the loop of lines 111-163 is over *)
LoopDone == pc \in {"returned", "summarised"}

(* the request has a holiday that the schedule reaches, and no extras *)
HolidaysOnly ==
    /\ extra_payments = <<>>
    /\ \E i \in Entries : schedule[i].is_holiday

(* C28 as stated: the loop ends after at most total_payments iterations, *)
(* each of which appends one entry; the entries carry the payment numbers *)
(* 1, 2, ..., k in order with k <= total_payments; a schedule with        *)
(* holidays and no extra payments ends at payment total_payments with a   *)
(* balance left unpaid.                                                    *)
C28_BoundedGapFree_Original ==
    /\ Len(schedule) <= total_payments
    /\ \A i \in Entries : schedule[i].payment_number = i
    /\ pc = "loop" =>
         /\ payment_num = Len(schedule) + 1
         /\ payment_num <= total_payments + 1
    /\ (LoopDone /\ HolidaysOnly) =>
         /\ Len(schedule) = total_payments
         /\ FinalBalance > 0

(* C28, amended: the loop ends after at most total_payments iterations,   *)
(* each of which appends one entry; the entries carry the payment numbers *)
(* 1, 2, ..., k in order with k <= total_payments, holiday entries taking *)
(* their numbers like the others; the schedule ends before payment        *)
(* total_payments only if the balance has reached 0, so a schedule whose  *)
(* holidays leave a balance ends at payment total_payments with that      *)
(* balance unpaid.                                                         *)
C28_BoundedGapFree ==
    /\ Len(schedule) <= total_payments
    /\ \A i \in Entries : schedule[i].payment_number = i
    /\ pc = "loop" =>
         /\ payment_num = Len(schedule) + 1
         /\ payment_num <= total_payments + 1
    /\ LoopDone =>
         \/ Len(schedule) = total_payments
         \/ FinalBalance <= 0

C28_Witness ==
    /\ LoopDone
    /\ HolidaysOnly
    /\ Len(schedule) = MaxPayments
    /\ ~schedule[Len(schedule)].is_holiday
    /\ FinalBalance > 0
    /\ annual_rate > 0

----------------------------------------------------------------------------
(* extra_payments without the entries that a later entry for the same     *)
(* payment number follows                                                  *)
RECURSIVE KeepLast(_)
KeepLast(eps) ==
    IF eps = <<>> THEN <<>>
    ELSE IF \E h \in 2 .. Len(eps) :
              eps[h].payment_number = eps[1].payment_number
    THEN KeepLast(Tail(eps))
    ELSE <<eps[1]>> \o KeepLast(Tail(eps))

(* the schedule of the same loan with only the last entry for each        *)
(* payment number in extra_payments                                        *)
ScheduleOfLast ==
    SoloLoop([Invocation EXCEPT !.extra_payments = KeepLast(extra_payments)],
             1, net_principal, start_date, <<>>).schedule

(* C26: when extra_payments has several entries with the same             *)
(* payment_number, one extra payment is applied in that period, with the  *)
(* amount of the last such entry in input order; the earlier entries have *)
(* no effect on any schedule entry or total.                               *)
C26_LastExtraWins ==
    /\ \A i \in Entries :
         /\ ~schedule[i].is_holiday /\ ~ClampFired(i)
              => schedule[i].extra_payment
                   = RegisteredAmount(schedule[i].payment_number)
         /\ schedule[i].extra_payment
              <= RegisteredAmount(schedule[i].payment_number)
    /\ LoopDone => schedule = ScheduleOfLast
    /\ pc = "summarised" =>
         summary = MakeSummary(ScheduleOfLast,
                               calculate_payment(net_principal, period_rate,
                                                 total_payments),
                               net_principal)

C26_Witness ==
    /\ pc = "summarised"
    /\ Len(extra_payments) = 2
    /\ extra_payments[1].payment_number = 1
    /\ extra_payments[2].payment_number = 1
    /\ extra_payments[1].amount > extra_payments[2].amount
    /\ ~ClampFired(1)
    /\ schedule[1].extra_payment = extra_payments[2].amount
    /\ summary.total_extra_payments = extra_payments[2].amount
    /\ Len(schedule) > 1

----------------------------------------------------------------------------
(* C29: calculate_loan returns a non-null affordability exactly when the  *)
(* monthly_income supplied is non-zero, negative values included; with    *)
(* monthly_income = 0 the affordability is null, so calculate_affordability *)
(* is never called from calculate_loan with an income of 0.               *)
C29_FalsyIncome ==
    result # None =>
      /\ result[1].affordability # None
           <=> (monthly_income # None /\ monthly_income[1] # 0)
      /\ monthly_income = Some(0) => result[1].affordability = None
      /\ result[1].affordability # None =>
           result[1].affordability[1].monthly_income # 0

C29_Witness ==
    /\ pc = "responded"
    /\ http_status = 200
    /\ monthly_income = Some(0)
    /\ result # None
    /\ result[1].affordability = None
    /\ result[1].schedule # <<>>

----------------------------------------------------------------------------
(* the users row registered under a username and a password *)
Registered(username, password) ==
    \E j \in DOMAIN users : /\ users[j].username = username
                            /\ users[j].password_hash = Hash(password)

(* C24: after a register request with a username not yet used and a       *)
(* password (no email) has succeeded with 201, a login with the same      *)
(* username and password returns 200 with an access_token; a login with   *)
(* a username never registered, or with a different password, returns     *)
(* 401 and no token.                                                       *)
C24_RegisterThenLogin ==
    /\ \A i, j \in DOMAIN users :
         users[i].username = users[j].username => i = j
    /\ reply # None =>
         LET r == reply[1]
         IN /\ (r.route = "register" /\ r.status = 201)
                 => Registered(r.username, r.password)
            /\ r.route = "login" =>
                 IF Registered(r.username, r.password)
                 THEN /\ r.status = 200
                      /\ r.token # None
                      /\ \E j \in DOMAIN users :
                           /\ users[j].username = r.username
                           /\ users[j].id = r.token[1]
                 ELSE r.status = 401 /\ r.token = None

C24_Witness ==
    /\ reply # None
    /\ reply[1].route = "login"
    /\ reply[1].status = 200
    /\ reply[1].token # None
    /\ reply[1].username = "testuser"
    /\ reply[1].password = "testpassword"
    /\ Len(users) = 2
    /\ users[2].username = "testuser"
    /\ users[2].account_id # None
    /\ users[2].id = reply[1].token[1]

----------------------------------------------------------------------------
(* the rows stored for an email *)
StoredFor(email) == {j \in DOMAIN otps : otps[j].email = email}

(* C30: over any sequence of send-otp and verify-otp requests, at most    *)
(* one code is stored per email, a send-otp for a deliverable address     *)
(* replaces the previous code by the one it issues, a successful verify   *)
(* deletes the code so that it is verified at most once, a verify after   *)
(* the expiry deletes it and fails, and a verify with a wrong code fails  *)
(* and leaves the stored code in place.                                    *)
C30_SingleUse ==
    /\ \A i, j \in DOMAIN otps : otps[i].email = otps[j].email => i = j
    /\ reply # None =>
         LET r == reply[1]
         IN /\ (r.route = "send-otp" /\ r.otp # "") =>
                 /\ r.status = 200
                 /\ \E j \in StoredFor(r.email) :
                      /\ otps[j].otp = r.otp
                      /\ otps[j].expires_at = r.at + expiry_minutes
            /\ (r.route = "verify-otp" /\ r.status = 200) =>
                 StoredFor(r.email) = {}
            /\ (r.route = "verify-otp" /\ r.message = "Code expired.") =>
                 StoredFor(r.email) = {}
            /\ (r.route = "verify-otp" /\ r.message = "Invalid code.") =>
                 \E j \in StoredFor(r.email) :
                   /\ otps[j].otp # r.otp
                   /\ otps[j].expires_at >= r.at

====
